---- MODULE Spec2Model ----
(***************************************************************************)
(* Model of the CGI image-viewer program "page" (rsmaxwell/pages).        *)
(*                                                                         *)
(* Two versions of main() are in the repository: cmd/page/page.go and a   *)
(* second one (unnamed/part_000).  Both are modelled; the variable        *)
(* `variant` says which one is running.  One run of the process is one    *)
(* behaviour: the program counter `pc` walks through main() from the      *)
(* REQUEST_URI lookup to the final Print or to an exit / runtime panic.   *)
(*                                                                         *)
(* Strings on which the code computes (file names, query values) are      *)
(* sequences of byte codes, so that filepath.Ext, filepath.Base,          *)
(* strings.ToLower and the ordinal "<" of Go strings are computed and     *)
(* not assumed.                                                            *)
(***************************************************************************)
EXTENDS Integers, Sequences, FiniteSets

(***************************************************************************)
(* Bounds of the model.                                                    *)
(***************************************************************************)
\* largest number of entries the directory listing holds
MaxChildren == 3
\* largest number of key=value parameters of the request's query string
MaxParams == 2

(***************************************************************************)
(* Byte strings.                                                           *)
(***************************************************************************)
Dot == 46
Slash == 47

\* "scale", "orig", "SCALE", "big"
STR_scale == <<115, 99, 97, 108, 101>>
STR_orig == <<111, 114, 105, 103>>
STR_SCALE == <<83, 67, 65, 76, 69>>
STR_big == <<98, 105, 103>>

\* ".jpg", ".jpeg", ".png"
EXT_jpg == <<46, 106, 112, 103>>
EXT_jpeg == <<46, 106, 112, 101, 103>>
EXT_png == <<46, 112, 110, 103>>

\* file names: "a.png", "b.jpg", "c.jpeg", "B.JPG", "d.txt", "n", "al.jpg"
N_a_png == <<97, 46, 112, 110, 103>>
N_b_jpg == <<98, 46, 106, 112, 103>>
N_c_jpeg == <<99, 46, 106, 112, 101, 103>>
N_B_JPG == <<66, 46, 74, 80, 71>>
N_d_txt == <<100, 46, 116, 120, 116>>
N_n == <<110>>
N_al_jpg == <<97, 108, 46, 106, 112, 103>>

\* values of the image parameter: "d/b.jpg", "d/q.png"
P_d_b_jpg == <<100, 47, 98, 46, 106, 112, 103>>
P_d_q_png == <<100, 47, 113, 46, 112, 110, 103>>

SetMax(S) == CHOOSE x \in S : \A y \in S : y <= x

\* Go's s < t on strings: bytewise lexicographic order
StrLess(s, t) ==
    \E k \in 1..(Len(t)) :
        /\ k <= Len(s) + 1
        /\ \A j \in 1..(k - 1) : s[j] = t[j]
        /\ (k = Len(s) + 1 \/ (k <= Len(s) /\ s[k] < t[k]))

\* strings.ToLower on ASCII
ToLower(s) == [i \in 1..Len(s) |-> IF s[i] \in 65..90 THEN s[i] + 32 ELSE s[i]]

\* filepath.Ext: the suffix beginning at the final dot of the final path
\* element, "" if there is none
Ext(path) ==
    LET dots == {i \in 1..Len(path) :
                    /\ path[i] = Dot
                    /\ \A j \in i..Len(path) : path[j] # Slash}
    IN IF dots = {} THEN <<>> ELSE SubSeq(path, SetMax(dots), Len(path))

\* filepath.Base: the last element of path, trailing slashes removed;
\* "." for the empty path, "/" for a path of slashes only
Base(path) ==
    IF path = <<>> THEN <<Dot>>
    ELSE LET nonSlash == {i \in 1..Len(path) : path[i] # Slash}
         IN IF nonSlash = {} THEN <<Slash>>
            ELSE LET end == SetMax(nonSlash)
                     seps == {i \in 1..end : path[i] = Slash}
                     start == IF seps = {} THEN 1 ELSE SetMax(seps) + 1
                 IN SubSeq(path, start, end)

\* func contains(s []string, e string) bool
contains(s, e) == \E i \in 1..Len(s) : s[i] = e

validZooms == <<STR_scale, STR_orig>>
validExtensions == <<EXT_jpg, EXT_jpeg, EXT_png>>

(***************************************************************************)
(* The environment of one run.                                             *)
(***************************************************************************)
\* os.FileInfo as far as main() can see it: Name() and IsDir()
File(n) == [name |-> n, isDir |-> FALSE]
Directory(n) == [name |-> n, isDir |-> TRUE]

\* the directory entries a listing is drawn from
EntryPool ==
    {File(N_a_png), File(N_b_jpg), File(N_c_jpeg), File(N_B_JPG),
     File(N_d_txt), File(N_n), Directory(N_al_jpg)}

\* the key=value parameters a query string is drawn from
Param(k, v) == [key |-> k, value |-> v]
ParamPool ==
    {Param("zoom", STR_scale), Param("zoom", STR_orig),
     Param("zoom", STR_SCALE), Param("zoom", STR_big),
     Param("image", P_d_b_jpg), Param("image", P_d_q_png)}

SeqsUpTo(S, n) == UNION {[1..k -> S] : k \in 0..n}

\* url.Values[key]: the values given for key, in the order of the query
RECURSIVE Values(_, _)
Values(query, key) ==
    IF query = <<>> THEN <<>>
    ELSE IF Head(query).key = key
         THEN <<Head(query).value>> \o Values(Tail(query), key)
         ELSE Values(Tail(query), key)

\* the order ioutil.ReadDir returns its entries in: sorted by filename
SortedByFilename(list) ==
    \A i \in 1..(Len(list) - 1) : ~StrLess(list[i + 1].name, list[i].name)

\* What ioutil.ReadDir can return.  The names come from the operating
\* system's directory stream, which ReadDir sorts but does not deduplicate
\* (a rename during the read can deliver a name twice).
Listings == {l \in SeqsUpTo(EntryPool, MaxChildren) : SortedByFilename(l)}

(***************************************************************************)
(* The state of one run of main().                                         *)
(***************************************************************************)
VARIABLES
    variant,          \* which main(): "page" (cmd/page/page.go) or "part_000"
    pc,               \* the statement of main() that runs next, or "exited"
    q,                \* q := u.Query(), as the sequence of its parameters
    zoom,             \* zoom
    filename,         \* filename := files[0]
    err,              \* err != nil, as left by os.Stat / ioutil.ReadDir
    children,         \* children, the result of ioutil.ReadDir
    filelist,         \* filelist
    found,            \* found (0-based index into filelist, -1: no match)
    previousButton,   \* previousButton: empty, or the link to prev.Name()
    nextButton,       \* nextButton: empty, or the link to next.Name()
    zoomButton,       \* zoomButton: "", "minus.png" or "plus.png"
    printed,          \* TRUE once fmt.Print(content) wrote the HTML page
    exitCode,         \* exit code of the process, read when pc = "exited"
    fault,            \* "none", or the runtime panic that ended the process
    exitedAt          \* the statement at which the process ended

vars ==
    <<variant, pc, q, zoom, filename, err, children, filelist, found,
      previousButton, nextButton, zoomButton, printed, exitCode, fault,
      exitedAt>>

Variants == {"page", "part_000"}

\* the statements of main(), in program order
Steps ==
    <<"ParseRequest", "SelectZoom", "SelectFile", "Stat", "ReadDir",
      "FilterSort", "Scan", "CheckFound", "Previous", "Next", "Render">>

Pos(step) == CHOOSE i \in 1..Len(Steps) : Steps[i] = step

\* the last statement that has run (0: none yet)
LastRun == IF pc = "exited" THEN Pos(exitedAt) ELSE Pos(pc) - 1

\* the statement `step` has run (to its end, or to the exit or panic in it)
HasRun(step) == LastRun >= Pos(step)

\* the empty string of previousButton / nextButton
NoButton == [present |-> FALSE, name |-> <<>>]
\* the <div> whose <a href> ends in the file name `n`
Button(n) == [present |-> TRUE, name |-> n]

zooms == Values(q, "zoom")
files == Values(q, "image")

Init ==
    /\ variant \in Variants
    /\ pc = "ParseRequest"
    /\ q = <<>>
    /\ zoom = STR_scale
    /\ filename = <<>>
    /\ err = FALSE
    /\ children = <<>>
    /\ filelist = <<>>
    /\ found = -1
    /\ previousButton = NoButton
    /\ nextButton = NoButton
    /\ zoomButton = ""
    /\ printed = FALSE
    /\ exitCode = 0
    /\ fault = "none"
    /\ exitedAt = "none"

\* os.Exit(code) / log.Fatal at the statement pc
Exit(code) ==
    /\ pc' = "exited"
    /\ exitedAt' = pc
    /\ exitCode' = code
    /\ fault' = "none"

\* a runtime panic at the statement pc: the Go runtime exits with status 2
Panic(what) ==
    /\ pc' = "exited"
    /\ exitedAt' = pc
    /\ exitCode' = 2
    /\ fault' = what

\* control moves on to the statement `step`
Goto(step) ==
    /\ pc' = step
    /\ UNCHANGED <<exitedAt, exitCode, fault>>

(***************************************************************************)
(* REQUEST_URI lookup, url.Parse and u.Query().                            *)
(***************************************************************************)
ParseRequest ==
    /\ pc = "ParseRequest"
    /\ \E exists \in BOOLEAN, parses \in BOOLEAN, query \in SeqsUpTo(ParamPool, MaxParams) :
        IF variant = "page"
        THEN IF exists /\ parses
             THEN q' = query /\ Goto("SelectZoom")
             ELSE q' = q /\ Exit(1)
        ELSE IF ~exists
             \* requestURI is "", which parses to an empty query
             THEN q' = <<>> /\ Goto("SelectZoom")
             ELSE IF parses
                  THEN q' = query /\ Goto("SelectZoom")
                  \* u is nil after the failed Parse; u.Query() reads u.RawQuery
                  ELSE q' = q /\ Panic("nil pointer dereference")
    /\ UNCHANGED <<variant, zoom, filename, err, children, filelist, found,
                   previousButton, nextButton, zoomButton, printed>>

(***************************************************************************)
(* zooms := q["zoom"] ... zoom                                             *)
(***************************************************************************)
selectZoom(zs) ==
    IF Len(zs) < 1 THEN STR_scale
    ELSE IF Len(zs) = 1
         THEN IF contains(validZooms, ToLower(zs[1])) THEN zs[1] ELSE STR_scale
         ELSE STR_scale

SelectZoom ==
    /\ pc = "SelectZoom"
    /\ zoom' = selectZoom(zooms)
    /\ Goto("SelectFile")
    /\ UNCHANGED <<variant, q, filename, err, children, filelist, found,
                   previousButton, nextButton, zoomButton, printed>>

(***************************************************************************)
(* files := q["image"] ... filename := files[0]                            *)
(***************************************************************************)
SelectFile ==
    /\ pc = "SelectFile"
    /\ IF Len(files) < 1
       THEN filename' = filename /\ Exit(1)
       ELSE filename' = files[1] /\ Goto("Stat")
    /\ UNCHANGED <<variant, q, zoom, err, children, filelist, found,
                   previousButton, nextButton, zoomButton, printed>>

(***************************************************************************)
(* os.Stat of the requested file                                           *)
(***************************************************************************)
Stat ==
    /\ pc = "Stat"
    /\ \E failed \in BOOLEAN :
        /\ err' = failed
        /\ IF failed /\ variant = "page" THEN Exit(1) ELSE Goto("ReadDir")
    /\ UNCHANGED <<variant, q, zoom, filename, children, filelist, found,
                   previousButton, nextButton, zoomButton, printed>>

(***************************************************************************)
(* children, err := ioutil.ReadDir(prefixDirectory)                        *)
(***************************************************************************)
ReadDir ==
    /\ pc = "ReadDir"
    /\ \/ /\ err' = TRUE
          /\ children' = <<>>
          /\ Exit(1)
       \/ /\ err' = FALSE
          /\ children' \in Listings
          /\ Goto("FilterSort")
    /\ UNCHANGED <<variant, q, zoom, filename, filelist, found,
                   previousButton, nextButton, zoomButton, printed>>

(***************************************************************************)
(* "list the files with the same parent, sorted by name"                   *)
(***************************************************************************)
\* the test of the filter loop on one child
accepted(child) == contains(validExtensions, ToLower(Ext(child.name)))

\* the loop appending the accepted children to filelist, in listing order
filter(list) == SelectSeq(list, accepted)

\* the less function handed to sort.Slice: an order the other way round
lessDescending(a, b) == StrLess(b.name, a.name)

\* the less function handed to sort.Slice
less(a, b) == StrLess(a.name, b.name)

Permutations(list) ==
    LET n == Len(list)
        bijections == {p \in [1..n -> 1..n] : \A i, j \in 1..n : p[i] = p[j] => i = j}
    IN {[i \in 1..n |-> list[p[i]]] : p \in bijections}

\* a filelist that is left in listing order: the sort.Slice call left out
leftUnsorted(list) == {list}

\* what sort.Slice(list, less) can leave in list: sort.Slice is not stable,
\* so elements that less does not order may end in any order
sorted(list) ==
    {s \in Permutations(list) : \A i \in 1..(Len(s) - 1) : ~less(s[i + 1], s[i])}

FilterSort ==
    /\ pc = "FilterSort"
    /\ filelist' \in sorted(filter(children))
    /\ Goto("Scan")
    /\ UNCHANGED <<variant, q, zoom, filename, err, children, found,
                   previousButton, nextButton, zoomButton, printed>>

(***************************************************************************)
(* found := -1; for i, f := range filelist { ... }                         *)
(***************************************************************************)
\* the test of the scan loop: the whole request path instead of its base
matchesPath(path, f) == path = f.name

\* the test of the scan loop
matches(path, f) == Base(path) = f.name

\* the loop from the 1-based position i on, with the value acc in found
RECURSIVE scanFrom(_, _, _, _)
scanFrom(list, path, i, acc) ==
    IF i > Len(list) THEN acc
    ELSE scanFrom(list, path, i + 1, IF matches(path, list[i]) THEN i - 1 ELSE acc)

\* a scan that leaves the loop at the first match
scanFirst(list, path) ==
    LET hits == {i \in 1..Len(list) : matches(path, list[i])}
    IN IF hits = {} THEN -1 ELSE (CHOOSE i \in hits : \A j \in hits : i <= j) - 1

\* the value of found after the loop
scan(list, path) == scanFrom(list, path, 1, -1)

Scan ==
    /\ pc = "Scan"
    /\ found' = scan(filelist, filename)
    /\ Goto("CheckFound")
    /\ UNCHANGED <<variant, q, zoom, filename, err, children, filelist,
                   previousButton, nextButton, zoomButton, printed>>

(***************************************************************************)
(* if found < 0 { ... }                                                    *)
(***************************************************************************)
CheckFound ==
    /\ pc = "CheckFound"
    /\ IF found < 0 /\ variant = "page" THEN Exit(1) ELSE Goto("Previous")
    /\ UNCHANGED <<variant, q, zoom, filename, err, children, filelist, found,
                   previousButton, nextButton, zoomButton, printed>>

(***************************************************************************)
(* previousButton and nextButton                                           *)
(***************************************************************************)
\* filelist[i] for a 0-based i is defined
InRange(list, i) == 0 <= i /\ i < Len(list)

\* the 0-based element i of a Go slice
At(list, i) == list[i + 1]

\* an index of prev that is the target's own
previousIndexSelf(i) == i

\* the index of prev := filelist[found-1]
previousIndex(i) == i - 1

\* the index of next := filelist[found+1]
nextIndex(i) == i + 1

Previous ==
    /\ pc = "Previous"
    /\ IF found > 0
       THEN IF InRange(filelist, previousIndex(found))
            THEN /\ previousButton' = Button(At(filelist, previousIndex(found)).name)
                 /\ Goto("Next")
            ELSE /\ previousButton' = previousButton
                 /\ Panic("index out of range")
       ELSE /\ previousButton' = previousButton
            /\ Goto("Next")
    /\ UNCHANGED <<variant, q, zoom, filename, err, children, filelist, found,
                   nextButton, zoomButton, printed>>

Next_ ==
    /\ pc = "Next"
    /\ IF found < Len(filelist)
       THEN IF InRange(filelist, nextIndex(found))
            THEN /\ nextButton' = Button(At(filelist, nextIndex(found)).name)
                 /\ Goto("Render")
            ELSE /\ nextButton' = nextButton
                 /\ Panic("index out of range")
       ELSE /\ nextButton' = nextButton
            /\ Goto("Render")
    /\ UNCHANGED <<variant, q, zoom, filename, err, children, filelist, found,
                   previousButton, zoomButton, printed>>

(***************************************************************************)
(* zoomButton, image, content; fmt.Print(content); return from main        *)
(***************************************************************************)
Render ==
    /\ pc = "Render"
    /\ zoomButton' = IF zoom = STR_scale THEN "minus.png" ELSE "plus.png"
    /\ printed' = TRUE
    /\ Exit(0)
    /\ UNCHANGED <<variant, q, zoom, filename, err, children, filelist, found,
                   previousButton, nextButton>>

Next ==
    \/ ParseRequest
    \/ SelectZoom
    \/ SelectFile
    \/ Stat
    \/ ReadDir
    \/ FilterSort
    \/ Scan
    \/ CheckFound
    \/ Previous
    \/ Next_
    \/ Render

Spec == Init /\ [][Next]_vars

(***************************************************************************)
(* The navigation statements of main() (filter and sort, scan, not-found   *)
(* check, previous, next, and the rendering that ends the run) as a        *)
(* function of the listing and the request: the run starts behind          *)
(* ioutil.ReadDir with a listing of distinct names supplied in any order,  *)
(* not only in the sorted order ReadDir delivers.                          *)
(***************************************************************************)
\* listings of distinct names, in any order
ListingsAnyOrder ==
    {l \in SeqsUpTo(EntryPool, MaxChildren) :
        \A i, j \in 1..Len(l) : l[i].name = l[j].name => i = j}

\* the values q["image"] can hold first
ImagePaths == {P_d_b_jpg, P_d_q_png}

InitNavigate ==
    /\ variant \in Variants
    /\ pc = "FilterSort"
    /\ \E path \in ImagePaths :
        /\ q = <<Param("image", path)>>
        /\ filename = path
    /\ zoom = STR_scale
    /\ err = FALSE
    /\ children \in ListingsAnyOrder
    /\ filelist = <<>>
    /\ found = -1
    /\ previousButton = NoButton
    /\ nextButton = NoButton
    /\ zoomButton = ""
    /\ printed = FALSE
    /\ exitCode = 0
    /\ fault = "none"
    /\ exitedAt = "none"

NextNavigate ==
    \/ FilterSort
    \/ Scan
    \/ CheckFound
    \/ Previous
    \/ Next_
    \/ Render

SpecNavigate == InitNavigate /\ [][NextNavigate]_vars

(***************************************************************************)
(* Vocabulary of the properties, stated on names and listings and not by   *)
(* way of the operators the actions use.                                   *)
(***************************************************************************)
\* the part of n from its last '.' on, lower-cased, is .jpg, .jpeg or .png
AcceptedName(n) ==
    \E k \in 1..Len(n) :
        /\ n[k] = Dot
        /\ \A j \in (k + 1)..Len(n) : n[j] # Dot
        /\ ToLower(SubSeq(n, k, Len(n))) \in {EXT_jpg, EXT_jpeg, EXT_png}

HasDot(n) == \E k \in 1..Len(n) : n[k] = Dot

\* the base name the request asks for
TargetBaseName == Base(filename)

\* an eligible file: not a directory, and of an accepted extension
Eligible(c) == ~c.isDir /\ AcceptedName(c.name)

\* the positions of the listing holding an eligible file named as the target
TargetInListing ==
    {i \in 1..Len(children) :
        Eligible(children[i]) /\ children[i].name = TargetBaseName}

\* the 0-based indexes of filelist whose entry is named as the target
Hits == {i \in 0..(Len(filelist) - 1) : At(filelist, i).name = TargetBaseName}

NavigationSteps == {"Scan", "CheckFound", "Previous", "Next"}

(***************************************************************************)
(* Properties.                                                             *)
(***************************************************************************)
\* C1: once the filter-and-sort step has run, filelist is in ascending
\* ordinal order of names, every name in it has a '.', and the lower-cased
\* extension of every name in it is .jpg, .jpeg or .png.
C1_SortedAcceptedOnly ==
    HasRun("FilterSort") =>
        /\ \A i \in 1..(Len(filelist) - 1) :
               ~StrLess(filelist[i + 1].name, filelist[i].name)
        /\ \A i \in 1..Len(filelist) :
               HasDot(filelist[i].name) /\ AcceptedName(filelist[i].name)

\* a listing with an upper-case extension, a name without '.' and a name of
\* another extension has been filtered and sorted into two or more names
C1_Witness ==
    /\ HasRun("FilterSort")
    /\ Len(filelist) >= 2
    /\ filelist[1].name = N_B_JPG
    /\ filelist[2].name # N_B_JPG
    /\ \E i \in 1..Len(children) : ~HasDot(children[i].name)

\* C2: when the target is the last entry of filelist, the next step ends
\* with no next link and without reading past the end of filelist.
C2_LastHasNoNext ==
    (HasRun("Next") /\ found >= 0 /\ found = Len(filelist) - 1) =>
        (nextButton = NoButton /\ fault = "none")

\* C3: when no entry of filelist is named as the target, found is the
\* "not found" value and neither a previous nor a next link is produced.
C3_NotFoundNoLinks ==
    (HasRun("Scan") /\ Hits = {}) =>
        (found = -1 /\ previousButton = NoButton /\ nextButton = NoButton)

\* C4: when exactly one eligible file of the listing is named as the
\* target, found is a valid index of filelist after the scan and the entry
\* at found has the target's name.
C4_FoundPointsAtTarget ==
    (HasRun("Scan") /\ Cardinality(TargetInListing) = 1) =>
        (InRange(filelist, found) /\ At(filelist, found).name = TargetBaseName)

\* the target occurs once and is not the first of the sorted siblings
C4_Witness ==
    /\ HasRun("Scan")
    /\ Cardinality(TargetInListing) = 1
    /\ found > 0
    /\ Len(filelist) > found + 1

\* C5: after the previous step, found = 0 leaves previousButton empty and
\* found > 0 makes it the link to the entry at found - 1.
C5_Previous ==
    HasRun("Previous") =>
        /\ found = 0 => previousButton = NoButton
        /\ found > 0 => previousButton = Button(At(filelist, found - 1).name)

\* the previous link to an entry other than the target has been made
C5_Witness ==
    /\ HasRun("Previous")
    /\ found > 0
    /\ previousButton.present
    /\ previousButton.name # TargetBaseName

\* C6: no entry of filelist is a directory.
C6_NoDirectoryListed ==
    HasRun("FilterSort") => \A i \in 1..Len(filelist) : ~filelist[i].isDir

\* C7: the process never ends in the navigation steps (scan, not-found
\* check, previous, next), neither by an exit nor by a panic.
C7_NavigationNeverAborts ==
    ~(pc = "exited" /\ exitedAt \in NavigationSteps)

\* C8: a process that has ended has exit code 0 and has printed the page if
\* there was one image parameter, the directory was read and the target was
\* found; it has a non-zero exit code and has not printed the page if the
\* image parameter was missing or the directory could not be read.
C8_ExitCodes ==
    pc = "exited" =>
        /\ (Len(files) = 1 /\ HasRun("Scan") /\ found >= 0) =>
               (exitCode = 0 /\ printed)
        /\ ((HasRun("SelectFile") /\ Len(files) = 0) \/ (HasRun("ReadDir") /\ err)) =>
               (exitCode # 0 /\ ~printed)

\* C9: after the zoom selection zoom is "scale" or "orig"; it is "scale"
\* when the parameter is absent, repeated or invalid; and a single zoom
\* parameter that lower-cases to "scale" is rendered by the scale branch.
C9_ZoomTwoValued ==
    HasRun("SelectZoom") =>
        /\ zoom \in {STR_scale, STR_orig}
        /\ IF Len(zooms) = 1
           THEN /\ ToLower(zooms[1]) \notin {STR_scale, STR_orig} => zoom = STR_scale
                /\ (HasRun("Render") /\ printed /\ ToLower(zooms[1]) = STR_scale) =>
                       zoomButton = "minus.png"
           ELSE zoom = STR_scale

\* C10: when several entries of filelist are named as the target, found is
\* the highest of their indexes after the scan, and the previous and next
\* links are those of the entries at found - 1 and found + 1.
C10_LastMatchWins ==
    (HasRun("Scan") /\ Cardinality(Hits) >= 2) =>
        /\ found = SetMax(Hits)
        /\ HasRun("Previous") =>
               previousButton = Button(At(filelist, found - 1).name)
        /\ (HasRun("Next") /\ fault = "none") =>
               nextButton = Button(At(filelist, found + 1).name)

\* the target is listed twice, followed by another sibling, and both links
\* have been made
C10_Witness ==
    /\ HasRun("Next")
    /\ fault = "none"
    /\ Cardinality(Hits) >= 2
    /\ previousButton.present
    /\ nextButton.present
    /\ nextButton.name # TargetBaseName

\* the previous link main() makes for the index i of list
previousOf(list, i) ==
    IF i > 0 /\ InRange(list, i - 1) THEN Button(At(list, i - 1).name) ELSE NoButton

\* the next link main() makes for the index i of list (none when the read
\* of list[i+1] panics)
nextOf(list, i) ==
    IF i < Len(list) /\ InRange(list, i + 1) THEN Button(At(list, i + 1).name) ELSE NoButton

\* C11: the navigation result of a run is the one every reordering of its
\* listing (names distinct) gives for the same target: the same filelist
\* after filter and sort, the same found after the scan, the same previous
\* and next links.
C11_OrderIndependent ==
    \A l \in Permutations(children) :
        LET lists == sorted(filter(l))
        IN /\ HasRun("FilterSort") => lists = {filelist}
           /\ \A fl \in lists :
                  LET i == scan(fl, filename)
                  IN /\ HasRun("Scan") => i = found
                     /\ HasRun("Previous") => previousOf(fl, i) = previousButton
                     /\ HasRun("Next") => nextOf(fl, i) = nextButton

\* a listing supplied out of order, with the target between two siblings,
\* has been navigated to both links
C11_Witness ==
    /\ HasRun("Next")
    /\ ~SortedByFilename(children)
    /\ Len(filelist) >= 3
    /\ found = 1
    /\ previousButton.present
    /\ nextButton.present

====
